---- MODULE Spec2Model ----
(***************************************************************************)
(* Model of "proof of concept/clipping4.py": a tetrahedron stored as faces *)
(* of edges of vertices, clipped in place by half-spaces (Polyhedron.clip, *)
(* update_edge) and measured by Polyhedron.volume.                         *)
(*                                                                         *)
(* Numbers.  Every coordinate is an integer number of length units, and a  *)
(* unit is a power of two, so that the program's floats are the model's    *)
(* integers scaled by it and its sums and products of them are exact; the  *)
(* inputs are chosen so that every cut point v1 + alpha*(v2-v1) is again   *)
(* an integer (TrimsExact states it).  Two resolutions are modelled, told  *)
(* apart by the variable fine, which is set by Init and never changes:     *)
(*   fine = FALSE  one unit is 1/Scale (0.5): the coordinate 1.0 of the    *)
(*                 source is Scale units, and epsilon = 1e-10 is less than *)
(*                 one unit;                                               *)
(*   fine = TRUE   one unit is 2^-34 (about 5.8e-11): epsilon is about     *)
(*                 1.718 units, so the geometry is of the size of the      *)
(*                 tolerance.                                              *)
(* A vertex is a record [id, c]: c its coordinates, id the identity of the *)
(* numpy array that stores it (what Python's id() and "is" compare).       *)
(* An edge is a sequence of two vertices, a face a sequence of edges, and  *)
(* the identity of an edge (a Python list) is its position in its face.    *)
(***************************************************************************)
EXTENDS Integers, Sequences, FiniteSets

VARIABLES
    faces,    \* self.faces
    nextId,   \* the next unused array identity (the allocator)
    failed,   \* "" while no assertion has failed, else the failed assertion
    clips,    \* the planes passed to clip() so far, in order
    pre,      \* self.faces as it was when the last clip() was called
    fine,     \* the resolution (see above)
    vertices, \* the 4 points the polyhedron was constructed from
    call      \* one call of update_edge on its own: its input and its result

vars == <<faces, nextId, failed, clips, pre, fine, vertices, call>>

(* Bounds *)
Half == 1            \* length units per 0.5 in the coarse resolution
MaxClips == 3        \* clip() calls per run

Scale == 2 * Half    \* length units per 1.0 in the coarse resolution
FineSide == 4 * Scale   \* side of the tetrahedron in the fine resolution
FineNormal == 2 * Scale \* magnitude of the plane normals in the fine resolution

(***************************************************************************)
(* 3-vectors (numpy arithmetic on arrays of 3 floats)                      *)
(***************************************************************************)
Sub(a, b) == <<a[1] - b[1], a[2] - b[2], a[3] - b[3]>>
Dot(a, b) == a[1] * b[1] + a[2] * b[2] + a[3] * b[3]
Cross(a, b) == <<a[2] * b[3] - a[3] * b[2],
                 a[3] * b[1] - a[1] * b[3],
                 a[1] * b[2] - a[2] * b[1]>>
Abs(x) == IF x < 0 THEN -x ELSE x
Norm2(a) == Dot(a, a)             \* the square of np.linalg.norm(a)

(***************************************************************************)
(* epsilon = 1e-10, as the fraction EpsNum / EpsDen of a length unit.  In  *)
(* the fine resolution it is 1e-10 * 2^34 = 1.7179869184 units, here       *)
(* 1718/1000.  In the coarse resolution it is 2e-10 units, here 1/1000.    *)
(* Every quantity compared with it is an integer (a signed distance) or a  *)
(* sum of integer squares (a squared length): no integer lies between the  *)
(* tolerance and its stand-in, nor between their squares, so every         *)
(* comparison is decided as the program decides it.                        *)
(***************************************************************************)
EpsDen == 1000
EpsNum == IF fine THEN 1718 ELSE 1
GtNegEps(d) == EpsDen * d > -EpsNum          \* d > -epsilon
LeNegEps(d) == EpsDen * d <= -EpsNum         \* d <= -epsilon
LeEps(d) == EpsDen * d <= EpsNum             \* d <= epsilon
GtEps(d) == EpsDen * d > EpsNum              \* d > epsilon
LenGtEps(a, b) == EpsDen * EpsDen * Norm2(Sub(a, b)) > EpsNum * EpsNum   \* norm(a-b) > epsilon
LenLtEps(a, b) == EpsDen * EpsDen * Norm2(Sub(a, b)) < EpsNum * EpsNum   \* norm(a-b) < epsilon

OnPlaneBand(d) == GtNegEps(d) /\ LeEps(d)    \* -epsilon < d <= epsilon

NoVertex == [id |-> 0, c |-> <<0, 0, 0>>]   \* None in the place of a vertex
NoEdge == <<>>                              \* None in the place of an edge

edge_length_gt_eps(edge) == LenGtEps(edge[1].c, edge[2].c)
vertices_equal(a, b) == LenLtEps(a.c, b.c)

(* The signed distance dot(v - p, n) of a vertex from the plane pl = [p, n] *)
Normal(v, pl) == Dot(Sub(v.c, pl.p), pl.n)

(* v1 + alpha*(v2 - v1), alpha = -v1_normal / dot(v2 - v1, n) *)
CutPoint(edge, pl) ==
    LET d1 == Normal(edge[1], pl)
        en == Dot(Sub(edge[2].c, edge[1].c), pl.n)
        v1 == edge[1].c
        v2 == edge[2].c
    IN  [i \in 1..3 |-> v1[i] + ((-d1) * (v2[i] - v1[i])) \div en]

(* update_edge with the first test against +epsilon instead of -epsilon:   *)
(* an edge in the plane is then no longer discarded.                       *)
update_edge_band(edge, pl, nid) ==
    LET v1 == edge[1]
        v2 == edge[2]
        v1_normal == Normal(v1, pl)
        v2_normal == Normal(v2, pl)
    IN  IF GtEps(v1_normal) /\ GtEps(v2_normal)
        THEN [edge |-> NoEdge, new_vertex |-> NoVertex, used |-> 0, ok |-> TRUE]
        ELSE IF LeNegEps(v1_normal) /\ LeNegEps(v2_normal)
        THEN [edge |-> edge, new_vertex |-> NoVertex, used |-> 0, ok |-> TRUE]
        ELSE IF GtNegEps(v1_normal) /\ LeEps(v1_normal)
        THEN [edge |-> edge, new_vertex |-> v1, used |-> 0, ok |-> TRUE]
        ELSE IF GtNegEps(v2_normal) /\ LeEps(v2_normal)
        THEN [edge |-> edge, new_vertex |-> v2, used |-> 0, ok |-> TRUE]
        ELSE LET v_new == [id |-> nid, c |-> CutPoint(edge, pl)]
                 trimmed == IF GtEps(v1_normal) THEN <<v_new, v2>> ELSE <<v1, v_new>>
             IN  [edge |-> trimmed, new_vertex |-> v_new, used |-> 1,
                  ok |-> edge_length_gt_eps(trimmed)]

(* update_edge returning the other endpoint where v1 is in the plane *)
update_edge_other(edge, pl, nid) ==
    LET v1 == edge[1]
        v2 == edge[2]
        v1_normal == Normal(v1, pl)
        v2_normal == Normal(v2, pl)
    IN  IF GtNegEps(v1_normal) /\ GtNegEps(v2_normal)
        THEN [edge |-> NoEdge, new_vertex |-> NoVertex, used |-> 0, ok |-> TRUE]
        ELSE IF LeNegEps(v1_normal) /\ LeNegEps(v2_normal)
        THEN [edge |-> edge, new_vertex |-> NoVertex, used |-> 0, ok |-> TRUE]
        ELSE IF GtNegEps(v1_normal) /\ LeEps(v1_normal)
        THEN [edge |-> edge, new_vertex |-> v2, used |-> 0, ok |-> TRUE]
        ELSE IF GtNegEps(v2_normal) /\ LeEps(v2_normal)
        THEN [edge |-> edge, new_vertex |-> v2, used |-> 0, ok |-> TRUE]
        ELSE LET v_new == [id |-> nid, c |-> CutPoint(edge, pl)]
                 trimmed == IF GtEps(v1_normal) THEN <<v_new, v2>> ELSE <<v1, v_new>>
             IN  [edge |-> trimmed, new_vertex |-> v_new, used |-> 1,
                  ok |-> edge_length_gt_eps(trimmed)]

(***************************************************************************)
(* update_edge(edge, p, n).  nid is the identity the array v_new gets if   *)
(* the edge is trimmed.  The result: edge (NoEdge for None), new_vertex    *)
(* (NoVertex for None), used (identities allocated) and ok (FALSE when the *)
(* assertion on the trimmed edge's length fails; the edge is then already  *)
(* trimmed in place).                                                      *)
(***************************************************************************)
update_edge(edge, pl, nid) ==
    LET v1 == edge[1]
        v2 == edge[2]
        v1_normal == Normal(v1, pl)
        v2_normal == Normal(v2, pl)
    IN  IF GtNegEps(v1_normal) /\ GtNegEps(v2_normal)
        THEN [edge |-> NoEdge, new_vertex |-> NoVertex, used |-> 0, ok |-> TRUE]
        ELSE IF LeNegEps(v1_normal) /\ LeNegEps(v2_normal)
        THEN [edge |-> edge, new_vertex |-> NoVertex, used |-> 0, ok |-> TRUE]
        ELSE IF GtNegEps(v1_normal) /\ LeEps(v1_normal)
        THEN [edge |-> edge, new_vertex |-> v1, used |-> 0, ok |-> TRUE]
        ELSE IF GtNegEps(v2_normal) /\ LeEps(v2_normal)
        THEN [edge |-> edge, new_vertex |-> v2, used |-> 0, ok |-> TRUE]
        ELSE LET v_new == [id |-> nid, c |-> CutPoint(edge, pl)]
                 trimmed == IF GtEps(v1_normal) THEN <<v_new, v2>> ELSE <<v1, v_new>>
             IN  [edge |-> trimmed, new_vertex |-> v_new, used |-> 1,
                  ok |-> edge_length_gt_eps(trimmed)]

(***************************************************************************)
(* Polyhedron.clip                                                         *)
(***************************************************************************)
Pop(s, k) == SubSeq(s, 1, k - 1) \o SubSeq(s, k + 1, Len(s))   \* list.pop(k)

(* A copy that is the array itself: the deepcopy forgotten *)
DeepCopyAlias(v, nid) == v

(* copy.deepcopy of one vertex: the same coordinates in a new array *)
DeepCopy(v, nid) == [id |-> nid, c |-> v.c]

(* The inner loop of clip over the edges k, k-1, .., 1 of one face (the    *)
(* reversed enumeration), new_edge being the copies collected so far.  It  *)
(* stops where update_edge's assertion fails, the face left as it is then. *)
(* EdgeStep is the body of the loop for the edge at k, r being what        *)
(* update_edge returned for it.                                            *)
RECURSIVE ClipEdges(_, _, _, _, _)
EdgeStep(face, k, pl, new_edge, nid, r) ==
    IF ~r.ok
    THEN [face |-> [face EXCEPT ![k] = r.edge], new_edge |-> new_edge,
          nid |-> nid + r.used, ok |-> FALSE]
    ELSE ClipEdges(IF r.edge = NoEdge THEN Pop(face, k) ELSE [face EXCEPT ![k] = r.edge],
                   k - 1, pl,
                   IF r.new_vertex # NoVertex
                   THEN Append(new_edge, DeepCopy(r.new_vertex, nid + r.used))
                   ELSE new_edge,
                   IF r.new_vertex # NoVertex THEN nid + r.used + 1 ELSE nid + r.used)

ClipEdges(face, k, pl, new_edge, nid) ==
    IF k = 0
    THEN [face |-> face, new_edge |-> new_edge, nid |-> nid, ok |-> TRUE]
    ELSE EdgeStep(face, k, pl, new_edge, nid, update_edge(face[k], pl, nid))

(* The body of the outer loop for one face, after its edges are done: the  *)
(* count assertion, the new edge and its copy for the cap.                 *)
CloseFace(face, new_edge, new_face, nid) ==
    IF Len(new_edge) # 0 /\ Len(new_edge) # 2
    THEN [face |-> face, new_face |-> new_face, nid |-> nid, failed |-> "count"]
    ELSE IF Len(new_edge) = 2 /\ edge_length_gt_eps(new_edge)
    THEN [face |-> Append(face, new_edge),
          new_face |-> Append(new_face, <<DeepCopy(new_edge[1], nid),
                                          DeepCopy(new_edge[2], nid + 1)>>),
          nid |-> nid + 2, failed |-> ""]
    ELSE [face |-> face, new_face |-> new_face, nid |-> nid, failed |-> ""]

(* The outer loop of clip over the faces k, k-1, .., 1 (reversed).         *)
(* FaceStep is its body for the face at k once the inner loop has returned *)
(* e, and FaceClosed what follows the count assertion, c being the face    *)
(* with its new edge.                                                      *)
RECURSIVE ClipFaces(_, _, _, _, _)
(* FaceClosed without the removal of a face left with no edge *)
FaceClosedKeepsEmpty(fs, k, pl, new_face, c) ==
    IF c.failed # ""
    THEN [faces |-> [fs EXCEPT ![k] = c.face], new_face |-> new_face,
          nid |-> c.nid, failed |-> c.failed]
    ELSE ClipFaces([fs EXCEPT ![k] = c.face], k - 1, pl, c.new_face, c.nid)

FaceClosed(fs, k, pl, new_face, c) ==
    IF c.failed # ""
    THEN [faces |-> [fs EXCEPT ![k] = c.face], new_face |-> new_face,
          nid |-> c.nid, failed |-> c.failed]
    ELSE ClipFaces(IF c.face = <<>> THEN Pop(fs, k) ELSE [fs EXCEPT ![k] = c.face],
                   k - 1, pl, c.new_face, c.nid)

FaceStep(fs, k, pl, new_face, e) ==
    IF ~e.ok
    THEN [faces |-> [fs EXCEPT ![k] = e.face], new_face |-> new_face,
          nid |-> e.nid, failed |-> "trim"]
    ELSE FaceClosed(fs, k, pl, new_face, CloseFace(e.face, e.new_edge, new_face, e.nid))

ClipFaces(fs, k, pl, new_face, nid) ==
    IF k = 0
    THEN [faces |-> fs, new_face |-> new_face, nid |-> nid, failed |-> ""]
    ELSE FaceStep(fs, k, pl, new_face, ClipEdges(fs[k], Len(fs[k]), pl, <<>>, nid))

(* flatten(flatten(self.faces)) as the sequence of the arrays' identities *)
RECURSIVE EdgeIds(_)
EdgeIds(face) ==
    IF face = <<>> THEN <<>>
    ELSE <<face[1][1].id, face[1][2].id>> \o EdgeIds(Tail(face))

RECURSIVE FlatIds(_)
FlatIds(fs) == IF fs = <<>> THEN <<>> ELSE EdgeIds(Head(fs)) \o FlatIds(Tail(fs))

vertices_are_unique(fs) ==
    LET ids == FlatIds(fs)
    IN  Len(ids) = Cardinality({ids[i] : i \in 1..Len(ids)})

(* The end of clip: the cap face, if the loops collected more than 2 edges *)
(* for it, and the assertion that the vertices are unique.                 *)
(* The cap appended whatever it holds *)
AddCapAlways(fs, new_face) == Append(fs, new_face)

AddCap(fs, new_face) == IF Len(new_face) > 2 THEN Append(fs, new_face) ELSE fs

Checked(fs, nid) ==
    [faces |-> fs, nid |-> nid,
     failed |-> IF vertices_are_unique(fs) THEN "" ELSE "P2"]

Finish(r) ==
    IF r.failed # ""
    THEN [faces |-> r.faces, nid |-> r.nid, failed |-> r.failed]
    ELSE Checked(AddCap(r.faces, r.new_face), r.nid)

(* clip(p, n) as a whole: the faces, the allocator and the outcome *)
ClipResult(fs, pl, nid) == Finish(ClipFaces(fs, Len(fs), pl, <<>>, nid))

(***************************************************************************)
(* Polyhedron.__init__: the 6 pairs of the 4 vertices in the order of      *)
(* itertools.combinations, grouped into 4 faces by the index table, each   *)
(* edge deep-copied into its face.  The 4 arrays of the vertices take the  *)
(* identities 1..4, the 24 copies the identities 5..28.                    *)
(***************************************************************************)
Combinations == <<<<1, 2>>, <<1, 3>>, <<1, 4>>, <<2, 3>>, <<2, 4>>, <<3, 4>>>>
FaceTable == <<<<3, 4, 5>>, <<1, 2, 5>>, <<0, 2, 4>>, <<0, 1, 3>>>>

Construct(vs) ==
    [i \in 1..4 |->
        [j \in 1..3 |->
            LET pair == Combinations[FaceTable[i][j] + 1]
                base == 4 + 6 * (i - 1) + 2 * (j - 1)
            IN  <<[id |-> base + 1, c |-> vs[pair[1]]],
                  [id |-> base + 2, c |-> vs[pair[2]]]>>]]

FirstFreeId == 29

(***************************************************************************)
(* Inputs                                                                  *)
(***************************************************************************)
Axis(i) == [k \in 1..3 |-> IF k = i THEN 1 ELSE 0]
Times(a, v) == <<a * v[1], a * v[2], a * v[3]>>

(* Coarse resolution: the tetrahedron of method3, and one inscribed in the *)
(* same cube; planes orthogonal to an axis through grid points, from one   *)
(* unit outside the cube on either side, with unit normals of both signs.  *)
Tetrahedra ==
    { <<<<0, 0, 0>>, <<Scale, 0, 0>>, <<0, Scale, 0>>, <<0, 0, Scale>>>>,
      <<<<0, 0, 0>>, <<Scale, Scale, 0>>, <<Scale, 0, Scale>>, <<0, Scale, Scale>>>> }
CoarsePlanes ==
    { [p |-> Times(c, Axis(i)), n |-> Times(s, Axis(i))] :
        c \in -1..(Scale + 1), i \in 1..3, s \in {1, -1} }

(* Fine resolution: a tetrahedron of FineSide units (a few epsilon) and    *)
(* planes through every unit, with normals of magnitude FineNormal.        *)
FineTetrahedra ==
    { <<<<0, 0, 0>>, <<FineSide, 0, 0>>, <<0, FineSide, 0>>, <<0, 0, FineSide>>>> }
FinePlanes ==
    { [p |-> Times(c, Axis(i)), n |-> Times(s * FineNormal, Axis(i))] :
        c \in -1..(FineSide + 1), i \in 1..3, s \in {1, -1} }

(* Oblique planes of the fine resolution: x_i + x_j = FineSide, through an *)
(* edge of the tetrahedron's oblique face, with normals along e_i + e_j.   *)
(* No point of the tetrahedron is in front of one of them, so they cut no  *)
(* edge.                                                                   *)
AxisPairs == {<<1, 2>>, <<1, 3>>, <<2, 3>>}
Plus(a, b) == [k \in 1..3 |-> a[k] + b[k]]
ObliquePlanes ==
    { [p |-> Times(FineSide, Axis(ij[1])),
       n |-> Times(s * FineNormal, Plus(Axis(ij[1]), Axis(ij[2])))] :
        ij \in AxisPairs, s \in {1, -1} }

Planes == IF fine THEN FinePlanes \cup ObliquePlanes ELSE CoarsePlanes

(***************************************************************************)
(* The polyhedron as a state machine                                       *)
(***************************************************************************)
NoCall == [edge |-> NoEdge, pl |-> [p |-> <<0, 0, 0>>, n |-> <<0, 0, 0>>],
           done |-> FALSE, out |-> NoEdge, new_vertex |-> NoVertex, ok |-> TRUE]

(* The constructor, on 4 points, in either resolution *)
Init ==
    /\ fine \in BOOLEAN
    /\ vertices \in (IF fine THEN FineTetrahedra ELSE Tetrahedra)
    /\ faces = Construct(vertices)
    /\ nextId = FirstFreeId
    /\ failed = ""
    /\ clips = <<>>
    /\ pre = faces
    /\ call = NoCall

Becomes(r) == faces' = r.faces /\ nextId' = r.nid /\ failed' = r.failed

(* p.clip(pl.p, pl.n).  An assertion that fails ends the run, the faces    *)
(* left as the loops had made them by then.                                *)
Clip(pl) ==
    /\ failed = ""
    /\ Len(clips) < MaxClips
    /\ Becomes(ClipResult(faces, pl, nextId))
    /\ clips' = Append(clips, pl)
    /\ pre' = faces
    /\ UNCHANGED <<vertices, fine, call>>

Next == \E pl \in Planes : Clip(pl)

Spec == Init /\ [][Next]_vars

(***************************************************************************)
(* update_edge on its own: one call on an edge and a plane drawn from a    *)
(* grid.  Unit normals along an axis; in the fine resolution the band      *)
(* (-epsilon, epsilon] then holds the distances -1, 0 and 1.  The edges    *)
(* are those whose cut point with the plane is an integer point.           *)
(***************************************************************************)
EdgeGrid == 0..(2 * Scale)
EdgePoints == {<<x, y, 0>> : x \in EdgeGrid, y \in 0..Scale}
EdgePlanes == {[p |-> <<Scale, 0, 0>>, n |-> Times(s, Axis(1))] : s \in {1, -1}}
CutExact(edge, pl) ==
    LET d1 == Normal(edge[1], pl)
        en == Dot(Sub(edge[2].c, edge[1].c), pl.n)
    IN  en # 0 => \A i \in 1..3 : ((-d1) * (edge[2].c[i] - edge[1].c[i])) % Abs(en) = 0

InitEdge ==
    /\ fine \in BOOLEAN
    /\ vertices = <<>>
    /\ faces = <<>>
    /\ nextId = 3
    /\ failed = ""
    /\ clips = <<>>
    /\ pre = <<>>
    /\ \E a \in EdgePoints, b \in EdgePoints, pl \in EdgePlanes :
          LET edge == <<[id |-> 1, c |-> a], [id |-> 2, c |-> b]>>
          IN  /\ CutExact(edge, pl)
              /\ call = [NoCall EXCEPT !.edge = edge, !.pl = pl]

Returns(r) ==
    /\ call' = [call EXCEPT !.done = TRUE, !.out = r.edge,
                            !.new_vertex = r.new_vertex, !.ok = r.ok]
    /\ nextId' = nextId + r.used

UpdateEdge ==
    /\ ~call.done
    /\ Returns(update_edge(call.edge, call.pl, nextId))
    /\ UNCHANGED <<faces, failed, clips, pre, fine, vertices>>

NextEdge == UpdateEdge

SpecEdge == InitEdge /\ [][NextEdge]_vars

(***************************************************************************)
(* extract_face_vertices and Polyhedron.volume                             *)
(***************************************************************************)
vertex_in_list(vertex, list) == \E i \in 1..Len(list) : vertices_equal(list[i], vertex)

(* find_other_edge: the position of the first edge of the face that is not *)
(* the edge at k and has the vertex (within epsilon); 0 for None.          *)
find_other_edge(face, k, vertex) ==
    LET hits == {j \in 1..Len(face) : j # k /\ vertex_in_list(vertex, face[j])}
    IN  IF hits = {} THEN 0 ELSE CHOOSE j \in hits : \A i \in hits : j <= i

(* find_other_vertex: np.all(edge[0]==vertex) compares the coordinates exactly *)
find_other_vertex(edge, vertex) == IF edge[1].c = vertex.c THEN edge[2] ELSE edge[1]

(* The loop of extract_face_vertices from the edge at k and the vertex.    *)
(* It ends "ok" when the vertex reached is the array it started from,      *)
(* "error" when find_other_edge returns None (the next call raises), and   *)
(* "loops" when it has taken more steps than there are pairs of an edge    *)
(* and an endpoint: the walk then repeats itself and never returns.        *)
RECURSIVE FaceWalk(_, _, _, _, _)
FaceWalk(face, k, vertex, first, acc) ==
    LET acc1 == Append(acc, vertex)
        j == find_other_edge(face, k, vertex)
    IN  IF j = 0 THEN [status |-> "error", vs |-> acc1]
        ELSE LET w == find_other_vertex(face[j], vertex)
             IN  IF w.id = first.id THEN [status |-> "ok", vs |-> acc1]
                 ELSE IF Len(acc1) > 2 * Len(face) THEN [status |-> "loops", vs |-> acc1]
                 ELSE FaceWalk(face, j, w, first, acc1)

extract_face_vertices(face) == FaceWalk(face, 1, face[1][1], face[1][1], <<>>)

(* The contribution of one face to the sum of volume(): the fan of its     *)
(* loop from its first vertex, against the reference vertex a.             *)
(* The fan summed with its sign, the absolute value forgotten *)
RECURSIVE FanSigned(_, _, _)
FanSigned(a, fv, i) ==
    IF i > Len(fv) - 1 THEN 0
    ELSE LET b == fv[1].c
             c == fv[i].c
             d == fv[i + 1].c
         IN  Dot(Sub(a.c, d), Cross(Sub(b, d), Sub(c, d))) + FanSigned(a, fv, i + 1)

RECURSIVE Fan(_, _, _)
Fan(a, fv, i) ==
    IF i > Len(fv) - 1 THEN 0
    ELSE LET b == fv[1].c
             c == fv[i].c
             d == fv[i + 1].c
         IN  Abs(Dot(Sub(a.c, d), Cross(Sub(b, d), Sub(c, d)))) + Fan(a, fv, i + 1)

RECURSIVE VolumeSum(_, _, _)
VolumeSum(fs, k, a) ==
    IF k > Len(fs) THEN [status |-> "ok", sum |-> 0]
    ELSE LET w == extract_face_vertices(fs[k])
         IN  IF w.status # "ok" THEN [status |-> w.status, sum |-> 0]
             ELSE LET rest == VolumeSum(fs, k + 1, a)
                  IN  [status |-> rest.status,
                       sum |-> rest.sum +
                               IF vertex_in_list(a, w.vs) THEN 0 ELSE Fan(a, w.vs, 2)]

(* volume(): the sum of the |dot| terms in cubic units, before the final   *)
(* multiplication by the float 1.0/6, and whether the call returns at all. *)
(* The sum is exact in the program's floats; the product with 1.0/6 is     *)
(* rounded, the same for equal sums and in their order for different ones, *)
(* so two results compare as their sums do.                                *)
volume(fs) ==
    IF Len(fs) = 0 THEN [status |-> "ok", sum |-> 0]
    ELSE VolumeSum(fs, 1, fs[1][1][1])

(***************************************************************************)
(* The invariants of the data model, and what a caller can observe         *)
(***************************************************************************)
(* Two edges of a face are adjacent when they share an endpoint within epsilon *)
Adjacent(face, i, j) ==
    \E a \in 1..2 : \E b \in 1..2 : vertices_equal(face[i][a], face[j][b])

RECURSIVE Reach(_, _)
Reach(face, S) ==
    LET T == S \cup {j \in 1..Len(face) : \E i \in S : Adjacent(face, i, j)}
    IN  IF T = S THEN S ELSE Reach(face, T)

(* F1: every vertex of the face is, within epsilon, an endpoint of exactly *)
(* two of its edges, and the edges hang together: one simple cycle.        *)
F1(face) ==
    /\ \A k \in 1..Len(face) : \A e \in 1..2 :
          Cardinality({j \in 1..Len(face) : vertex_in_list(face[k][e], face[j])}) = 2
    /\ Reach(face, {1}) = 1..Len(face)

(* The vertices (endpoint slots) of a polyhedron *)
AllVertices(fs) ==
    UNION {UNION {{fs[k][j][1], fs[k][j][2]} : j \in 1..Len(fs[k])} : k \in 1..Len(fs)}

NClips == Len(clips)
LastPlane == clips[NClips]

(* Some face of fs lies in the plane as a whole *)
FaceInPlane(fs, pl) ==
    \E k \in 1..Len(fs) : \A j \in 1..Len(fs[k]) : \A e \in 1..2 :
        OnPlaneBand(Normal(fs[k][j][e], pl))

(* Every cut point of every edge with every plane is an integer point: the *)
(* division in CutPoint is exact, as the float arithmetic it stands for.   *)
TrimsExact ==
    \A pl \in Planes : \A k \in 1..Len(faces) : \A j \in 1..Len(faces[k]) :
        LET edge == faces[k][j]
            d1 == Normal(edge[1], pl)
            en == Dot(Sub(edge[2].c, edge[1].c), pl.n)
        IN  en # 0 => \A i \in 1..3 : ((-d1) * (edge[2].c[i] - edge[1].c[i])) % Abs(en) = 0

(***************************************************************************)
(* The claims                                                              *)
(***************************************************************************)

(* C1: after construction and after every clip that returns, every face    *)
(* is one simple cycle (F1), the cap face included, also when the plane    *)
(* passes through vertices or edges.                                       *)
C1_FacesAreCycles == failed = "" => \A k \in 1..Len(faces) : F1(faces[k])

(* C2: no two endpoint slots of the polyhedron are the same array, after   *)
(* construction and after every clip, and the assertion on it never fails. *)
C2_VerticesUnique == vertices_are_unique(faces) /\ failed # "P2"

(* A clip that added a new edge to a face and a copy of it to a cap *)
C2_Witness == NClips >= 1 /\ failed = "" /\ Len(faces) = Len(pre) + 1

(* C3: volume() after a clip is at most volume() before it. *)
C3_VolumeNeverGrows ==
    (NClips >= 1 /\ failed = "" /\ volume(pre).status = "ok" /\ volume(faces).status = "ok")
        => volume(faces).sum <= volume(pre).sum

(* C4: clip(p, n) right after clip(p, n) returns too, and leaves the       *)
(* number of faces and volume() as the first left them.                    *)
C4_Idempotent ==
    (NClips >= 2 /\ clips[NClips] = clips[NClips - 1]) =>
        /\ failed = ""
        /\ Len(faces) = Len(pre)
        /\ volume(faces) = volume(pre)

(* The second of two equal clips, the first of which had left a face (the  *)
(* cap) in the plane: it is discarded and built again.                     *)
C4_Witness ==
    /\ NClips >= 2 /\ clips[NClips] = clips[NClips - 1] /\ failed = ""
    /\ FaceInPlane(pre, LastPlane) /\ FaceInPlane(faces, LastPlane)
    /\ \E v \in AllVertices(faces) : LeNegEps(Normal(v, LastPlane))

(* C5: method3: the unit tetrahedron clipped at x = 0.5, y = 0.5 and       *)
(* z = 0.5 has volume 5/48, and no assertion fails.  volume().sum is six   *)
(* times the volume in cubic units of 1/Scale: 6 * (5/48) * Scale^3.       *)
Method3Vertices == <<<<0, 0, 0>>, <<Scale, 0, 0>>, <<0, Scale, 0>>, <<0, 0, Scale>>>>
Method3Clips == <<[p |-> <<Half, 0, 0>>, n |-> <<1, 0, 0>>],
                  [p |-> <<0, Half, 0>>, n |-> <<0, 1, 0>>],
                  [p |-> <<0, 0, Half>>, n |-> <<0, 0, 1>>]>>
Method3Run == ~fine /\ vertices = Method3Vertices /\ clips = Method3Clips

C5_Method3Volume ==
    Method3Run =>
        /\ failed = ""
        /\ volume(faces).status = "ok"
        /\ 8 * volume(faces).sum = 5 * Scale * Scale * Scale

(* method3 has run, its last plane through a vertex the first cut made *)
C5_Witness ==
    /\ Method3Run
    /\ \E v \in AllVertices(pre) :
          /\ OnPlaneBand(Normal(v, LastPlane))
          /\ \A i \in 1..4 : v.c # vertices[i]

(* C6: a clip with every vertex at d > -epsilon leaves no face at all, and *)
(* volume() is then 0.                                                     *)
AllInFront(fs, pl) == \A v \in AllVertices(fs) : GtNegEps(Normal(v, pl))

C6_TotalRemoval ==
    (NClips >= 1 /\ AllInFront(pre, LastPlane)) =>
        /\ failed = ""
        /\ faces = <<>>
        /\ volume(faces) = [status |-> "ok", sum |-> 0]

(* All of a polyhedron that an earlier clip had cut and capped is removed *)
C6_Witness ==
    /\ NClips >= 2 /\ AllInFront(pre, LastPlane)
    /\ Len(pre) >= 5 /\ faces = <<>>

(* C7: a clip with every vertex at d <= -epsilon changes nothing: the      *)
(* faces, their edges and every endpoint are as before, no cap is added    *)
(* and volume() returns what it returned before.                           *)
AllBehind(fs, pl) == \A v \in AllVertices(fs) : LeNegEps(Normal(v, pl))

C7_NoOp ==
    (NClips >= 1 /\ pre # <<>> /\ AllBehind(pre, LastPlane)) =>
        /\ failed = ""
        /\ faces = pre
        /\ volume(faces) = volume(pre)

(* A plane that misses a polyhedron an earlier clip had cut and capped *)
C7_Witness ==
    /\ NClips >= 2 /\ pre # <<>> /\ AllBehind(pre, LastPlane)
    /\ Len(pre) >= 5 /\ faces = pre

(* C8: a clip that fails on an assertion leaves the polyhedron as it was   *)
(* when the clip was called.                                               *)
C8_FailedClipChangesNothing == failed # "" => faces = pre

(* C9: the assertion on the number of new vertices of a face (0 or 2)      *)
(* never fails.                                                            *)
C9_CountIsZeroOrTwo == failed # "count"

(* C10, as stated: whenever an endpoint of the edge is within              *)
(* (-epsilon, epsilon] of the plane, update_edge returns the edge as it    *)
(* was, and that endpoint as the new vertex.                               *)
CallD1 == Normal(call.edge[1], call.pl)
CallD2 == Normal(call.edge[2], call.pl)

C10_OnPlaneAlwaysKept ==
    (call.done /\ (OnPlaneBand(CallD1) \/ OnPlaneBand(CallD2))) =>
        /\ call.out = call.edge
        /\ \/ OnPlaneBand(CallD1) /\ call.new_vertex = call.edge[1]
           \/ OnPlaneBand(CallD2) /\ call.new_vertex = call.edge[2]

(* C10, amended: the edge is kept as it was and the endpoint in the band   *)
(* returned when the other endpoint is behind the plane (d <= -epsilon);   *)
(* when the other endpoint is at d > -epsilon the edge is discarded and no *)
(* vertex returned.                                                        *)
C10_OnPlaneKeptIfOtherBehind ==
    call.done =>
        /\ (OnPlaneBand(CallD1) /\ LeNegEps(CallD2)) =>
              call.out = call.edge /\ call.new_vertex = call.edge[1]
        /\ (OnPlaneBand(CallD2) /\ LeNegEps(CallD1)) =>
              call.out = call.edge /\ call.new_vertex = call.edge[2]
        /\ ((OnPlaneBand(CallD1) /\ GtNegEps(CallD2)) \/
            (OnPlaneBand(CallD2) /\ GtNegEps(CallD1))) =>
              call.out = NoEdge /\ call.new_vertex = NoVertex

(* update_edge has returned for an edge whose first endpoint is in the     *)
(* band, off the plane itself, and whose second is behind the plane        *)
C10_Witness ==
    /\ call.done
    /\ OnPlaneBand(CallD1) /\ CallD1 # 0 /\ LeNegEps(CallD2)
    /\ call.out = call.edge

====
